---- MODULE Spec2Model ----
(***************************************************************************)
(* Model of scripts/generate_graph.py: read the benchmark CSV, parse each  *)
(* data line into a row, build the data frame, draw one series per method  *)
(* in two panels, save the figure.                                         *)
(*                                                                         *)
(* Text is a sequence of one-character strings, so that str.strip,         *)
(* str.split, str.replace, int() and float() are modelled character by     *)
(* character.  The characters that occur are digits, ".", ",", " ", the    *)
(* line terminator "\n" and letters; no sign, exponent or underscore       *)
(* occurs, and no token longer than one letter is made of letters only     *)
(* (so "inf" and "nan" do not occur).                                      *)
(***************************************************************************)
EXTENDS Integers, Sequences, FiniteSets, TLC

VARIABLES
    readable,     \* whether open(csv_path) succeeds
    source,       \* the fields of each line as the producer of the file wrote them
    file,         \* the text of the file
    pc,           \* position of the script
    err,          \* the exception that ended the run, "" when none
    lines,        \* lines = f.readlines()
    header,       \* header = lines[0].strip().split(',')
    n,            \* index (1-based) of the next element of lines the for loop takes
    tokens,       \* tokens of the line the loop handled last
    data,         \* data, the list of rows
    df,           \* df = pd.DataFrame(data), as its sequence of rows
    method_data,  \* method_data of the plot loop's last iteration
    ax1,          \* the series drawn on ax1, in drawing order
    ax2,          \* the series drawn on ax2, in drawing order
    saved         \* whether plt.savefig has written the image

vars == <<readable, source, file, pc, err, lines, header, n, tokens, data, df,
          method_data, ax1, ax2, saved>>

---------------------------------------------------------------------------
(* Bounds of the model. *)

\* longest run of data lines drawn from DataPool
MaxData == 3
\* longest run of data lines drawn from MethodPool
MaxMethodLines == 5

---------------------------------------------------------------------------
(* Text primitives. *)

Whitespace == {" ", "\n"}

Digits == {"0", "1", "2", "3", "4", "5", "6", "7", "8", "9"}

DigitVal(c) ==
    CASE c = "0" -> 0 [] c = "1" -> 1 [] c = "2" -> 2 [] c = "3" -> 3
      [] c = "4" -> 4 [] c = "5" -> 5 [] c = "6" -> 6 [] c = "7" -> 7
      [] c = "8" -> 8 [] c = "9" -> 9

\* str.strip(): drop leading and trailing whitespace
RECURSIVE LStrip(_)
LStrip(s) ==
    IF s = <<>> THEN s
    ELSE IF Head(s) \in Whitespace THEN LStrip(Tail(s)) ELSE s

RECURSIVE RStrip(_)
RStrip(s) ==
    IF s = <<>> THEN s
    ELSE IF s[Len(s)] \in Whitespace THEN RStrip(SubSeq(s, 1, Len(s) - 1)) ELSE s

strip(s) == RStrip(LStrip(s))

\* str.split(','): cut at every comma; the empty string gives one empty token
RECURSIVE split(_)
split(s) ==
    IF \A k \in 1..Len(s) : s[k] # ","
    THEN <<s>>
    ELSE LET k == CHOOSE j \in 1..Len(s) :
                      s[j] = "," /\ \A j2 \in 1..(j - 1) : s[j2] # ","
         IN  <<SubSeq(s, 1, k - 1)>> \o split(SubSeq(s, k + 1, Len(s)))

\* str.replace(',', '.')
replace(s) == [k \in 1..Len(s) |-> IF s[k] = "," THEN "." ELSE s[k]]

\* f.readlines(): each line with its terminator; a last unterminated line too
RECURSIVE readlines(_)
readlines(text) ==
    IF text = <<>> THEN <<>>
    ELSE IF \A k \in 1..Len(text) : text[k] # "\n"
    THEN <<text>>
    ELSE LET k == CHOOSE j \in 1..Len(text) :
                      text[j] = "\n" /\ \A j2 \in 1..(j - 1) : text[j2] # "\n"
         IN  <<SubSeq(text, 1, k)>> \o readlines(SubSeq(text, k + 1, Len(text)))

RECURSIVE DigitsVal(_)
DigitsVal(s) ==
    IF s = <<>> THEN 0
    ELSE 10 * DigitsVal(SubSeq(s, 1, Len(s) - 1)) + DigitVal(s[Len(s)])

AllDigits(s) == \A k \in 1..Len(s) : s[k] \in Digits

\* A number m / 10^d as the pair <<m, d>> with no trailing zero digit.
RECURSIVE Norm(_)
Norm(v) ==
    IF v[2] > 0 /\ v[1] % 10 = 0 THEN Norm(<<v[1] \div 10, v[2] - 1>>) ELSE v

NoNum == <<0, 0>>

\* int(text): surrounding whitespace is ignored, then digits only
int(text) ==
    LET t == strip(text)
    IN  IF t # <<>> /\ AllDigits(t)
        THEN [err |-> "", val |-> DigitsVal(t)]
        ELSE [err |-> "ValueError", val |-> 0]

\* float(text): surrounding whitespace is ignored, then digits with at most
\* one period and at least one digit
float(text) ==
    LET t    == strip(text)
        dots == {k \in 1..Len(t) : t[k] = "."}
        p    == IF dots = {} THEN Len(t) + 1 ELSE CHOOSE k \in dots : TRUE
        ip   == SubSeq(t, 1, p - 1)
        fp   == SubSeq(t, p + 1, Len(t))
    IN  IF Cardinality(dots) <= 1 /\ AllDigits(ip) /\ AllDigits(fp)
           /\ Len(ip) + Len(fp) > 0
        THEN [err |-> "", val |-> Norm(<<DigitsVal(ip \o fp), Len(fp)>>)]
        ELSE [err |-> "ValueError", val |-> NoNum]

---------------------------------------------------------------------------
(* The parse loop's body, lines 17-25. *)

\* tokens = line.strip().split(',')
Tokens(line) == split(strip(line))

NoRow ==
    [Size |-> 0, Method |-> <<>>, Compute |-> NoNum, Total |-> NoNum,
     Memory |-> NoNum, GFlops |-> NoNum]

\* float(tokens[k].replace(',', '.')), k counted from 0 as in the source
FloatAt(t, k) ==
    IF Len(t) <= k THEN [err |-> "IndexError", val |-> NoNum]
    ELSE float(replace(t[k + 1]))

\* Row with the total time read from the field before its own
RowShifted(t) ==
    LET size == int(t[1])
        errs == << size.err,
                   IF Len(t) <= 1 THEN "IndexError" ELSE "",
                   FloatAt(t, 2).err, FloatAt(t, 3).err,
                   FloatAt(t, 6).err, FloatAt(t, 8).err >>
        bad  == {k \in 1..Len(errs) : errs[k] # ""}
    IN  IF bad # {}
        THEN [err |-> errs[CHOOSE k \in bad : \A k2 \in bad : k <= k2],
              row |-> NoRow]
        ELSE [err |-> "",
              row |-> [Size    |-> size.val,
                       Method  |-> t[2],
                       Compute |-> FloatAt(t, 2).val,
                       Total   |-> FloatAt(t, 3).val,
                       Memory  |-> FloatAt(t, 6).val,
                       GFlops  |-> FloatAt(t, 8).val]]

\* The dict literal: its values are evaluated in the order written, and the
\* first conversion or index that fails raises.
Row(t) ==
    LET size == int(t[1])
        errs == << size.err,
                   IF Len(t) <= 1 THEN "IndexError" ELSE "",
                   FloatAt(t, 2).err, FloatAt(t, 4).err,
                   FloatAt(t, 6).err, FloatAt(t, 8).err >>
        bad  == {k \in 1..Len(errs) : errs[k] # ""}
    IN  IF bad # {}
        THEN [err |-> errs[CHOOSE k \in bad : \A k2 \in bad : k <= k2],
              row |-> NoRow]
        ELSE [err |-> "",
              row |-> [Size    |-> size.val,
                       Method  |-> t[2],
                       Compute |-> FloatAt(t, 2).val,
                       Total   |-> FloatAt(t, 4).val,
                       Memory  |-> FloatAt(t, 6).val,
                       GFlops  |-> FloatAt(t, 8).val]]

---------------------------------------------------------------------------
(* The data frame and the plot loops, lines 28-68. *)

colors == <<"#2ecc71", "#e74c3c", "#3498db", "#f1c40f">>

markers == <<"o", "s", "^", "D">>

\* df['Method']
MethodColumn(frame) == [k \in 1..Len(frame) |-> frame[k].Method]

\* unique keeping each value at its last appearance
RECURSIVE uniqueKeepLast(_)
uniqueKeepLast(col) ==
    IF col = <<>> THEN <<>>
    ELSE IF \E k \in 2..Len(col) : col[k] = Head(col)
    THEN uniqueKeepLast(Tail(col))
    ELSE <<Head(col)>> \o uniqueKeepLast(Tail(col))

\* the column itself, repeated values kept
uniqueNoDedup(col) == col

\* Series.unique(): the distinct values in order of appearance
RECURSIVE unique(_)
unique(col) ==
    IF col = <<>> THEN <<>>
    ELSE LET rest == unique(SubSeq(col, 1, Len(col) - 1))
             last == col[Len(col)]
         IN  IF \E k \in 1..Len(rest) : rest[k] = last
             THEN rest ELSE Append(rest, last)

Min(a, b) == IF a <= b THEN a ELSE b

\* zip(a, b, c): stops with the shortest argument
zip(a, b, c) ==
    [k \in 1..Min(Len(a), Min(Len(b), Len(c))) |-> <<a[k], b[k], c[k]>>]

\* zip(df['Method'].unique(), colors, markers)
PlotOrder(frame) == zip(unique(MethodColumn(frame)), colors, markers)

\* the rows of the method, a row equal to an earlier one dropped
MethodDataDedup(frame, method) ==
    LET idx == {k \in 1..Len(frame) :
                   /\ frame[k].Method = method
                   /\ \A k2 \in 1..(k - 1) : frame[k2] # frame[k]}
    IN  [j \in 1..Cardinality(idx) |->
            frame[CHOOSE k \in idx : Cardinality({k2 \in idx : k2 <= k}) = j]]

\* df[df['Method'] == method]: the rows of the method, in frame order
MethodData(frame, method) ==
    LET Keep(r) == r.Method = method IN SelectSeq(frame, Keep)

SizeColumn(frame) == [k \in 1..Len(frame) |-> frame[k].Size]

ComputeColumn(frame) == [k \in 1..Len(frame) |-> frame[k].Compute]

GFlopsColumn(frame) == [k \in 1..Len(frame) |-> frame[k].GFlops]

---------------------------------------------------------------------------
(* The input files.  A file is written by the benchmark program, one line  *)
(* per record, the fields joined by commas and the line ended by "\n".     *)
(* A line is given by its fields as written; a field is a text.            *)

RECURSIVE Join(_)
Join(fields) ==
    IF fields = <<>> THEN <<>>
    ELSE IF Len(fields) = 1 THEN fields[1]
    ELSE fields[1] \o <<",">> \o Join(Tail(fields))

RECURSIVE Render(_)
Render(rows) ==
    IF rows = <<>> THEN <<>>
    ELSE Join(Head(rows)) \o <<"\n">> \o Render(Tail(rows))

\* a line of one-character fields
Chars(cs) == [k \in 1..Len(cs) |-> <<cs[k]>>]

HeaderRow == Chars(<<"S", "M", "C", "u", "T", "u", "R", "u", "G">>)

\* size 2, method A
RowA2 == Chars(<<"2", "A", "1", "0", "3", "0", "4", "0", "5">>)

\* as RowA2, the unused fields non-numeric or empty and one field more
RowA2u == << <<"2">>, <<"A">>, <<"1">>, <<"x">>, <<"3">>, <<>>, <<"4">>,
             <<"y">>, <<"5">>, <<"z">> >>

\* size 1, method A
RowA1 == Chars(<<"1", "A", "2", "0", "2", "0", "2", "0", "2">>)

\* method B, the compute time written with a decimal period
RowB1 == << <<"1">>, <<"B">>, <<"1", ".", "5">>, <<"0">>, <<"2">>, <<"0">>,
            <<"2">>, <<"0">>, <<"2">> >>

\* method B, the numeric fields written with a decimal comma
RowBc == << <<"1">>, <<"B">>, <<"1", ",", "5">>, <<"0">>, <<"2", ",", "5">>,
            <<"0">>, <<"3", ",", "5">>, <<"0">>, <<"4", ",", "5">> >>

\* three fields only
RowShort == Chars(<<"1", "A", "2">>)

\* a non-numeric size
RowBadSize == Chars(<<"x", "A", "1", "0", "1", "0", "1", "0", "1">>)

\* a non-numeric gflops
RowBadGFlops == Chars(<<"1", "A", "1", "0", "1", "0", "1", "0", "x">>)

\* an empty line
RowBlank == << <<>> >>

\* a line of one space
RowSpace == << <<" ">> >>

DataPool ==
    {RowA2, RowA2u, RowA1, RowB1, RowBc, RowShort, RowBadSize, RowBadGFlops,
     RowBlank, RowSpace}

Methods == {"A", "B", "C", "D", "E"}

MethodRow(m) == Chars(<<"1", m, "1", "0", "1", "0", "1", "0", "1">>)

MethodPool == {MethodRow(m) : m \in Methods}

SeqsUpTo(S, lo, hi) == UNION {[1..k -> S] : k \in lo..hi}

Injective(f) == \A a, b \in DOMAIN f : a # b => f[a] # f[b]

\* The empty file; a header line (or a data line in its place) followed by
\* data lines of any kind; a header line followed by one valid line for each
\* of several methods, in any order.
Inputs ==
    {<<>>}
    \cup {<<h>> \o d : h \in {HeaderRow, RowA1}, d \in SeqsUpTo(DataPool, 0, MaxData)}
    \cup {<<HeaderRow>> \o d :
             d \in {f \in SeqsUpTo(MethodPool, MaxData + 1, MaxMethodLines) :
                       Injective(f)}}

---------------------------------------------------------------------------
(* The script. *)

Init ==
    /\ \/ readable = TRUE /\ source \in Inputs
       \/ readable = FALSE /\ source = <<>>
    /\ file = Render(source)
    /\ pc = "open"
    /\ err = ""
    /\ lines = <<>>
    /\ header = <<>>
    /\ n = 0
    /\ tokens = <<>>
    /\ data = <<>>
    /\ df = <<>>
    /\ method_data = <<>>
    /\ ax1 = <<>>
    /\ ax2 = <<>>
    /\ saved = FALSE

Raise(e) ==
    /\ pc' = "fatal"
    /\ err' = e

\* lines 11-12: open the file and read its lines
ReadFile ==
    /\ pc = "open"
    /\ IF readable
       THEN /\ lines' = readlines(file)
            /\ pc' = "header"
            /\ err' = err
       ELSE /\ Raise("FileNotFoundError")
            /\ lines' = lines
    /\ UNCHANGED <<readable, source, file, header, n, tokens, data, df,
                   method_data, ax1, ax2, saved>>

\* the header taken without lines[0] raising on an empty list
HeaderUnchecked ==
    /\ pc = "header"
    /\ header' = IF lines = <<>> THEN <<>> ELSE Tokens(lines[1])
    /\ n' = 2
    /\ pc' = "parse"
    /\ UNCHANGED <<readable, source, file, err, lines, tokens, data, df,
                   method_data, ax1, ax2, saved>>

\* line 14: lines[0] raises on an empty list
Header ==
    /\ pc = "header"
    /\ IF lines = <<>>
       THEN /\ Raise("IndexError")
            /\ UNCHANGED <<header, n>>
       ELSE /\ header' = Tokens(lines[1])
            /\ n' = 2
            /\ pc' = "parse"
            /\ err' = err
    /\ UNCHANGED <<readable, source, file, lines, tokens, data, df,
                   method_data, ax1, ax2, saved>>

\* lines 16-26: one iteration of the loop over lines[1:]
ParseLine ==
    /\ pc = "parse"
    /\ n <= Len(lines)
    /\ tokens' = Tokens(lines[n])
    /\ LET r == Row(tokens')
       IN  IF r.err = ""
           THEN /\ data' = Append(data, r.row)
                /\ n' = n + 1
                /\ UNCHANGED <<pc, err>>
           ELSE /\ Raise(r.err)
                /\ UNCHANGED <<data, n>>
    /\ UNCHANGED <<readable, source, file, lines, header, df, method_data,
                   ax1, ax2, saved>>

\* line 28, after the loop has taken every line
DataFrame ==
    /\ pc = "parse"
    /\ n > Len(lines)
    /\ df' = data
    /\ pc' = "plot1"
    /\ UNCHANGED <<readable, source, file, err, lines, header, n, tokens, data,
                   method_data, ax1, ax2, saved>>

\* what ax.plot receives for one method
Series(z, md, ycol) ==
    [label |-> z[1], color |-> z[2], marker |-> z[3],
     x |-> SizeColumn(md), y |-> ycol]

\* line 41 on a frame built from no rows: it has no column 'Method'
Plot1KeyError ==
    /\ pc = "plot1"
    /\ df = <<>>
    /\ Raise("KeyError")
    /\ UNCHANGED <<readable, source, file, lines, header, n, tokens, data, df,
                   method_data, ax1, ax2, saved>>

\* lines 41-49: one iteration of the first plot loop
Plot1Step ==
    /\ pc = "plot1"
    /\ df # <<>>
    /\ Len(ax1) < Len(PlotOrder(df))
    /\ LET z  == PlotOrder(df)[Len(ax1) + 1]
           md == MethodData(df, z[1])
       IN  /\ method_data' = md
           /\ ax1' = Append(ax1, Series(z, md, ComputeColumn(md)))
    /\ UNCHANGED <<readable, source, file, pc, err, lines, header, n, tokens,
                   data, df, ax2, saved>>

\* lines 51-57, after the first loop
Plot1End ==
    /\ pc = "plot1"
    /\ df # <<>>
    /\ Len(ax1) = Len(PlotOrder(df))
    /\ pc' = "plot2"
    /\ UNCHANGED <<readable, source, file, err, lines, header, n, tokens, data,
                   df, method_data, ax1, ax2, saved>>

\* lines 60-68: one iteration of the second plot loop
Plot2Step ==
    /\ pc = "plot2"
    /\ Len(ax2) < Len(PlotOrder(df))
    /\ LET z  == PlotOrder(df)[Len(ax2) + 1]
           md == MethodData(df, z[1])
       IN  /\ method_data' = md
           /\ ax2' = Append(ax2, Series(z, md, GFlopsColumn(md)))
    /\ UNCHANGED <<readable, source, file, pc, err, lines, header, n, tokens,
                   data, df, ax1, saved>>

\* lines 70-78, after the second loop
Plot2End ==
    /\ pc = "plot2"
    /\ Len(ax2) = Len(PlotOrder(df))
    /\ pc' = "save"
    /\ UNCHANGED <<readable, source, file, err, lines, header, n, tokens, data,
                   df, method_data, ax1, ax2, saved>>

\* lines 81-82
SaveFig ==
    /\ pc = "save"
    /\ saved' = TRUE
    /\ pc' = "done"
    /\ UNCHANGED <<readable, source, file, err, lines, header, n, tokens, data,
                   df, method_data, ax1, ax2>>

Next ==
    \/ ReadFile
    \/ Header
    \/ ParseLine
    \/ DataFrame
    \/ Plot1KeyError
    \/ Plot1Step
    \/ Plot1End
    \/ Plot2Step
    \/ Plot2End
    \/ SaveFig

Spec == Init /\ [][Next]_vars

---------------------------------------------------------------------------
(* Vocabulary of the properties. *)

\* the script has read the file and taken the header
Reading == pc \in {"open", "header"}

\* the frame exists
Framed == pc \in {"plot1", "plot2", "save", "done"}

\* a data line the parser is to skip: fewer than 9 fields, or a size,
\* compute time, total time, memory or gflops field that is not a number
Malformed(line) ==
    LET t == Tokens(line)
    IN  \/ Len(t) < 9
        \/ int(t[1]).err # ""
        \/ \E k \in {3, 5, 7, 9} : float(t[k]).err # ""

Blank(line) == strip(line) = <<>>

\* the records of the well-formed lines among ls, in order
RECURSIVE ValidRows(_)
ValidRows(ls) ==
    IF ls = <<>> THEN <<>>
    ELSE IF Malformed(Head(ls)) THEN ValidRows(Tail(ls))
    ELSE <<Row(Tokens(Head(ls))).row>> \o ValidRows(Tail(ls))

DataLines == SubSeq(lines, 2, Len(lines))

\* positions of the rows of method m in the frame, and the j-th of them
RowsOf(frame, m) == {k \in 1..Len(frame) : frame[k].Method = m}

Nth(S, j) == CHOOSE k \in S : Cardinality({k2 \in S : k2 <= k}) = j

\* the rows of method m, in frame order
Subsequence(frame, m) ==
    [j \in 1..Cardinality(RowsOf(frame, m)) |-> frame[Nth(RowsOf(frame, m), j)]]

\* position of the first row of method m
FirstRow(frame, m) == Nth(RowsOf(frame, m), 1)

\* the methods of the frame
MethodSet(frame) == {frame[k].Method : k \in 1..Len(frame)}

RECURSIVE SumLen(_, _)
SumLen(frame, ms) ==
    IF ms = <<>> THEN 0
    ELSE Len(MethodData(frame, Head(ms))) + SumLen(frame, Tail(ms))

---------------------------------------------------------------------------
(* C1 *)

\* C1: when the data lines hold a malformed line and a valid line, the run
\* does not end in a fatal error, and once the loop is over data holds the
\* records of exactly the valid lines, in order.
C1_SkipMalformed ==
    ( /\ \E k \in 1..Len(DataLines) : Malformed(DataLines[k])
      /\ \E k \in 1..Len(DataLines) : ~Malformed(DataLines[k]) )
    => /\ pc # "fatal"
       /\ Framed => df = ValidRows(DataLines)

---------------------------------------------------------------------------
(* C2 *)

\* C2: in both panels the a-th series drawn is the a-th distinct method in
\* order of first occurrence in the parsed records: exactly a distinct
\* methods occur in the frame up to the first row of its method.
C2_FirstOccurrenceOrder ==
    \A ax \in {ax1, ax2} : \A a \in 1..Len(ax) :
        /\ ax[a].label \in MethodSet(df)
        /\ Cardinality({df[k].Method : k \in 1..FirstRow(df, ax[a].label)}) = a

\* methods B and A drawn in that order from the records B, A, B
C2_Witness ==
    /\ pc = "done"
    /\ MethodColumn(df) = << <<"B">>, <<"A">>, <<"B">> >>
    /\ [a \in 1..Len(ax1) |-> ax1[a].label] = << <<"B">>, <<"A">> >>
    /\ [a \in 1..Len(ax2) |-> ax2[a].label] = << <<"B">>, <<"A">> >>

---------------------------------------------------------------------------
(* C3 *)

\* C3: the frame holds the records of the data lines in line order, and every
\* series built by the plot loops is the subsequence of the frame's rows
\* with its method, in frame order, nothing sorted and nothing dropped.
C3_SeriesIsSubsequence ==
    /\ Framed => /\ Len(df) = Len(DataLines)
                 /\ \A k \in 1..Len(df) : df[k] = Row(Tokens(DataLines[k])).row
    /\ \A a \in 1..Len(ax1) :
          /\ ax1[a].x = SizeColumn(Subsequence(df, ax1[a].label))
          /\ ax1[a].y = ComputeColumn(Subsequence(df, ax1[a].label))
    /\ \A a \in 1..Len(ax2) :
          /\ ax2[a].x = SizeColumn(Subsequence(df, ax2[a].label))
          /\ ax2[a].y = GFlopsColumn(Subsequence(df, ax2[a].label))
    /\ (pc = "plot1" /\ ax1 # <<>>)
          => method_data = Subsequence(df, ax1[Len(ax1)].label)
    /\ (pc = "plot2" /\ ax2 # <<>>)
          => method_data = Subsequence(df, ax2[Len(ax2)].label)

\* a series with sizes 2, 1, 2: not sorted, and the same (method, size) twice
C3_Witness ==
    /\ pc = "done"
    /\ \E a \in 1..Len(ax1) : ax1[a].x = <<2, 1, 2>>
    /\ \E a \in 1..Len(ax2) : ax2[a].x = <<2, 1, 2>>

---------------------------------------------------------------------------
(* C4 *)

\* C4: the lengths of the series of the distinct methods of the parsed
\* records add up to the number of data lines parsed so far.
C4_GroupCompleteness ==
    /\ SumLen(data, unique(MethodColumn(data))) = Len(data)
    /\ pc = "parse" => Len(data) = n - 2
    /\ Framed => /\ Len(data) = Len(lines) - 1
                 /\ SumLen(df, unique(MethodColumn(df))) = Len(df)
                 /\ Len(df) = Len(data)

\* three records of two methods, one method twice
C4_Witness ==
    /\ pc = "done"
    /\ Len(df) = 3
    /\ Len(unique(MethodColumn(df))) = 2

---------------------------------------------------------------------------
(* C5 *)

\* C5: a file of a header line only gives an empty frame and the run goes
\* through to the end without an error.
C5_EmptySafe ==
    (~Reading /\ Len(lines) = 1)
    => /\ pc # "fatal"
       /\ Framed => df = <<>>

---------------------------------------------------------------------------
(* C6 *)

\* a line of 9 fields whose numeric fields are numbers once a decimal comma
\* is replaced by a period, one of them at least written with a comma
DecimalCommaRow(fields) ==
    /\ Len(fields) = 9
    /\ int(fields[1]).err = ""
    /\ \A k \in {3, 5, 7, 9} : float(replace(fields[k])).err = ""
    /\ \E k \in {3, 5, 7, 9} : \E j \in 1..Len(fields[k]) : fields[k][j] = ","

\* the record of the fields as written
RecordOf(fields) ==
    [Size    |-> int(fields[1]).val,
     Method  |-> fields[2],
     Compute |-> float(replace(fields[3])).val,
     Total   |-> float(replace(fields[5])).val,
     Memory  |-> float(replace(fields[7])).val,
     GFlops  |-> float(replace(fields[9])).val]

\* C6: a line written with decimal commas, once the loop has taken it, was
\* split into its 9 fields and gave the record of its fields with the commas
\* read as periods.
C6_DecimalComma ==
    \A k \in 2..Len(lines) :
        (DecimalCommaRow(source[k]) /\ pc = "parse" /\ n > k)
        => /\ Len(Tokens(lines[k])) = 9
           /\ data[k - 1] = RecordOf(source[k])

---------------------------------------------------------------------------
(* C7 *)

\* a header, one or more valid lines, then blank lines from line j on
TrailingBlankFrom(j) ==
    /\ 3 <= j /\ j <= Len(lines)
    /\ \A k \in 2..(j - 1) : ~Malformed(lines[k])
    /\ \A k \in j..Len(lines) : Blank(lines[k])

\* C7: blank lines at the end do not fail the run, and the frame is the one
\* of the lines before them.
C7_TrailingBlankIgnored ==
    \A j \in 3..Len(lines) :
        TrailingBlankFrom(j)
        => /\ pc # "fatal"
           /\ Framed => df = ValidRows(SubSeq(lines, 2, j - 1))

---------------------------------------------------------------------------
(* C8 *)

\* C8: an unreadable file fails at open and an empty file at the header
\* line, with no line parsed; no failed run has written the image; the
\* image is written only when every line is read and parsed and both panels
\* are drawn.
C8_FatalWritesNothing ==
    /\ (~readable /\ pc # "open")
          => pc = "fatal" /\ err = "FileNotFoundError" /\ lines = <<>>
             /\ tokens = <<>> /\ data = <<>>
    /\ (readable /\ file = <<>> /\ ~Reading)
          => pc = "fatal" /\ err = "IndexError" /\ tokens = <<>> /\ data = <<>>
    /\ pc = "fatal" => ~saved /\ err # ""
    /\ saved => /\ pc = "done" /\ err = ""
                /\ lines = readlines(file)
                /\ n = Len(lines) + 1
                /\ Len(data) = Len(lines) - 1
                /\ df = data
                /\ Len(ax1) = Len(PlotOrder(df))
                /\ Len(ax2) = Len(PlotOrder(df))

\* the run on an empty file has failed
C8_Witness ==
    /\ readable /\ file = <<>>
    /\ pc = "fatal" /\ err = "IndexError"
    /\ ~saved

---------------------------------------------------------------------------
(* C9 *)

\* the methods of the frame in order of first occurrence
MethodOrder(frame) ==
    [a \in 1..Cardinality(MethodSet(frame)) |->
        CHOOSE m \in MethodSet(frame) :
            Cardinality({frame[k].Method : k \in 1..FirstRow(frame, m)}) = a]

\* C9: at the end each panel holds one series per method of the frame, in
\* order, the a-th with color and marker a modulo the palette size.
C9_OneSeriesPerMethod ==
    pc = "done" =>
        \A ax \in {ax1, ax2} :
            /\ Len(ax) = Len(MethodOrder(df))
            /\ \A a \in 1..Len(ax) :
                  /\ ax[a].label = MethodOrder(df)[a]
                  /\ ax[a].color = colors[((a - 1) % Len(colors)) + 1]
                  /\ ax[a].marker = markers[((a - 1) % Len(markers)) + 1]

---------------------------------------------------------------------------
(* C10 *)

\* the positions (counted from 1) of the fields a record is made of
Consumed == {1, 2, 3, 5, 7, 9}

\* the tokens of each line and what the loop body makes of them
RECURSIVE Outcomes(_)
Outcomes(ls) ==
    IF ls = <<>> THEN <<>>
    ELSE LET t == Tokens(Head(ls))
         IN  <<[tokens |-> t, row |-> Row(t)]>> \o Outcomes(Tail(ls))

\* C10: two data lines of at least 9 fields that agree on the consumed
\* positions have the same outcome and record; and the record at position k
\* of data is the one of line k + 1, so the header is never a record.
C10_OnlyConsumedFields ==
    LET out == Outcomes(lines)
    IN  /\ \A i, j \in 2..Len(lines) :
              ( /\ Len(out[i].tokens) >= 9
                /\ Len(out[j].tokens) >= 9
                /\ \A k \in Consumed : out[i].tokens[k] = out[j].tokens[k] )
              => out[i].row = out[j].row
        /\ n >= 2 =>
              /\ Len(data) <= Len(lines) - 1
              /\ \A k \in 1..Len(data) : data[k] = out[k + 1].row.row
              /\ pc = "parse" => Len(data) = n - 2

\* a header that reads as a data line, then two lines that differ in the
\* unused fields only: two equal records, none for the header
C10_Witness ==
    /\ pc = "done"
    /\ ~Malformed(lines[1])
    /\ Len(data) = 2
    /\ Tokens(lines[2]) # Tokens(lines[3])
    /\ data[1] = data[2]

====
